---- MODULE Spec2Model ----
(***************************************************************************)
(* A model of canopen/node/local.py: LocalNode, the device side of a       *)
(* CANopen node.  The node keeps a data store behind an object dictionary, *)
(* two chains of read and write callbacks, a set of transmit PDO maps      *)
(* driven by SYNC, and its subscriptions on a network.                     *)
(***************************************************************************)
EXTENDS Integers, Sequences, FiniteSets, TLC

VARIABLES
    nmt_state,        \* self.nmt.state
    enabled,          \* tpdo.enabled, per map of self.tpdo.map
    trans_type,       \* tpdo.trans_type, per map
    sync_count,       \* tpdo._internal_sync_count, per map
    pdo_data,         \* the buffer of each map
    data_store,       \* self.data_store, keyed by <<index, subindex>>
    read_callbacks,   \* self._read_callbacks
    write_callbacks,  \* self._write_callbacks
    heartbeat,        \* producer heartbeat time held by self.nmt
    network,          \* self.network
    subscribers,      \* the subscriptions held by the network
    last,             \* the last call made on the node and what it gave
    run,              \* history: position in the current gapless run of sync events
    unsub_count,      \* history: unsubscribe calls per identifier since associate_network
    detach_calls      \* history: remove_network calls since associate_network

vars == <<nmt_state, enabled, trans_type, sync_count, pdo_data, data_store,
          read_callbacks, write_callbacks, heartbeat, network, subscribers,
          last, run, unsub_count, detach_calls>>

syncVars == <<nmt_state, enabled, trans_type, sync_count, run>>
accessVars == <<pdo_data, data_store, read_callbacks, write_callbacks, heartbeat>>
netVars == <<network, subscribers, unsub_count, detach_calls>>

(***************************************************************************)
(* Bounds of the model.                                                    *)
(***************************************************************************)
\* _on_sync is not taken once a counter has reached MaxCount
MaxCount == 256
\* remove_network is not called more than MaxDetach times in a row
MaxDetach == 2
\* at most MaxCallbacks callbacks are registered by the user
MaxCallbacks == 2

(***************************************************************************)
(* The transmit PDO maps and the SYNC handler.                             *)
(***************************************************************************)
\* the keys of self.tpdo.map
Maps == {1, 2}

\* the largest transmission type that is sent by counting sync events
MaxSyncTransType == 240

NmtStates == {"INITIALISING", "PRE-OPERATIONAL", "OPERATIONAL"}

\* transmission types a map is configured with: acyclic, cyclic, reserved, event-driven
SmallTransTypes == {0, 1, 2}
LargeTransTypes == {240, 241, 255}
TransTypes == SmallTransTypes \cup LargeTransTypes

IsCyclic(t) == 1 <= t /\ t <= 240

\* the configurations of the maps: at most one map counts beyond the small types
MapConfigs ==
    {tt \in [Maps -> TransTypes] :
        Cardinality({m \in Maps : tt[m] \in LargeTransTypes}) <= 1}
SmallMapConfigs == [Maps -> SmallTransTypes]

IsOperational_Always == TRUE

\* line 145: the handler acts only in OPERATIONAL
IsOperational == nmt_state = "OPERATIONAL"

IsEnabled_Always(m) == TRUE

\* line 150
IsEnabled(m) == enabled[m]

TransmitDue_Strict(m, c) == trans_type[m] < c /\ trans_type[m] <= MaxSyncTransType

TransmitDue_NoRange(m, c) == trans_type[m] <= c

TransmitDue_CyclicOnly(m, c) ==
    1 <= trans_type[m] /\ trans_type[m] <= c /\ trans_type[m] <= MaxSyncTransType

\* line 152: the threshold test on the incremented counter c
TransmitDue(m, c) == trans_type[m] <= c /\ trans_type[m] <= MaxSyncTransType

\* lines 150-156 for one map: is it transmitted by this sync event
Transmits(m) == IsEnabled(m) /\ TransmitDue(m, sync_count[m] + 1)

CountAfterSync_NoReset(m) ==
    IF IsEnabled(m) THEN sync_count[m] + 1 ELSE sync_count[m]

\* lines 150-156 for one map: its counter after this sync event
CountAfterSync(m) ==
    IF IsEnabled(m)
    THEN IF TransmitDue(m, sync_count[m] + 1) THEN 0 ELSE sync_count[m] + 1
    ELSE sync_count[m]

\* history: the sync event reaches map m (state and enable gates open)
GatedIn(m) == nmt_state = "OPERATIONAL" /\ enabled[m]

\* history: position of the next event in a run of sync events that all reached
\* map m and that began with the counter at 0; -1 when no such run is in progress
RunAfterSync(m) ==
    IF ~IsCyclic(trans_type[m]) THEN -1
    ELSE IF GatedIn(m) /\ run[m] >= 0 THEN (run[m] + 1) % trans_type[m]
    ELSE IF sync_count'[m] = 0 THEN 0
    ELSE -1

TransmitOutcome_NeedsNetwork(m, net) ==
    IF net = "None" THEN "AttributeError" ELSE "sent"

\* line 154, Map.transmit: the buffer is handed to the binding and the call returns
TransmitOutcome(m, net) == "sent"

SyncError_EmptyFails(tx) ==
    IF tx = {} THEN "ValueError" ELSE "none"

\* lines 145-156: the exception this sync event lets out, if any, tx being the
\* maps it transmits
SyncError(tx) ==
    IF \E m \in tx : TransmitOutcome(m, network) # "sent"
    THEN TransmitOutcome(CHOOSE m \in tx : TransmitOutcome(m, network) # "sent",
                         network)
    ELSE "none"

OnSync ==
    /\ \A m \in Maps : sync_count[m] < MaxCount
    /\ IF ~IsOperational
       THEN /\ sync_count' = sync_count
            /\ last' = [op |-> "_on_sync", tx |-> {}, error |-> SyncError({})]
       ELSE /\ sync_count' = [m \in Maps |-> CountAfterSync(m)]
            /\ last' = [op |-> "_on_sync", tx |-> {m \in Maps : Transmits(m)},
                        error |-> SyncError({m \in Maps : Transmits(m)})]
    /\ run' = [m \in Maps |-> RunAfterSync(m)]
    /\ UNCHANGED <<nmt_state, enabled, trans_type>>
    /\ UNCHANGED accessVars
    /\ UNCHANGED netVars

\* the NMT slave changes state (a command from the master, or a local assignment)
NmtSetState(s) ==
    /\ s # nmt_state
    /\ nmt_state' = s
    /\ last' = [op |-> "config"]
    /\ UNCHANGED <<enabled, trans_type, sync_count, run>>
    /\ UNCHANGED accessVars
    /\ UNCHANGED netVars

\* a map is enabled or disabled by configuration
SetEnabled(m, b) ==
    /\ b # enabled[m]
    /\ enabled' = [enabled EXCEPT ![m] = b]
    /\ last' = [op |-> "config"]
    /\ UNCHANGED <<nmt_state, trans_type, sync_count, run>>
    /\ UNCHANGED accessVars
    /\ UNCHANGED netVars

(***************************************************************************)
(* The object dictionary the node is built with.                           *)
(***************************************************************************)
\* the indices of the dictionary, and one that is not in it
IdxHeartbeat == 4119
IdxTpdoMapping == 6656
IdxSetpoint == 8192
IdxStatus == 8193
IdxBlob == 8194
IdxAbsent == 16384

\* objectdictionary.NUMBER_TYPES
NUMBER_TYPES == {"UNSIGNED8", "UNSIGNED16", "UNSIGNED32"}

\* an objectdictionary.Variable; value and default are <<>> for None, else <<v>>
Variable(dt, r, w, bits, value, default) ==
    [kind |-> "Variable", data_type |-> dt, readable |-> r, writable |-> w,
     bits |-> bits, value |-> value, default |-> default]

\* an objectdictionary.Record or Array with its members by subindex
Record(members) == [kind |-> "Record", subs |-> members]

\* self.object_dictionary
OD ==
    (IdxHeartbeat :> Variable("UNSIGNED16", TRUE, TRUE, 16, <<>>, <<0>>))
    @@ (IdxTpdoMapping :>
            Record(0 :> Variable("UNSIGNED8", TRUE, TRUE, 8, <<>>, <<1>>)))
    @@ (IdxSetpoint :> Variable("UNSIGNED16", TRUE, TRUE, 16, <<>>, <<>>))
    @@ (IdxStatus :> Variable("UNSIGNED8", TRUE, FALSE, 8, <<7>>, <<1>>))
    @@ (IdxBlob :> Variable("DOMAIN", FALSE, TRUE, 0, <<>>, <<>>))

\* the addresses the calls are made with
Addresses ==
    {<<IdxHeartbeat, 0>>, <<IdxTpdoMapping, 0>>, <<IdxTpdoMapping, 1>>,
     <<IdxSetpoint, 0>>, <<IdxSetpoint, 1>>, <<IdxStatus, 0>>, <<IdxBlob, 0>>,
     <<IdxAbsent, 0>>}

\* the addresses the calls are made with once the user registers callbacks
CallbackAddresses ==
    {<<IdxTpdoMapping, 1>>, <<IdxSetpoint, 0>>, <<IdxStatus, 0>>, <<IdxBlob, 0>>,
     <<IdxAbsent, 0>>}

\* the byte strings the calls are made with
Payloads == {<<42>>, <<42, 0>>, <<7, 1>>}

\* SDO abort codes
NoSuchIndex == 100794368
NoSuchSubindex == 101253137
WriteOnly == 100728833
ReadOnly == 100728834
LengthMismatch == 101122064
ResourceUnavailable == 101318691

\* 256 to the power n
RECURSIVE Pow256(_)
Pow256(n) == IF n = 0 THEN 1 ELSE 256 * Pow256(n - 1)

\* Variable.encode_raw of a number: little-endian, as many bytes as the type has
encode_raw(obj, v) ==
    [i \in 1..(obj.bits \div 8) |-> (v \div Pow256(i - 1)) % 256]

\* struct.unpack_from("<H", data)
UnpackU16(data) == data[1] + 256 * data[2]

FindObject_SubZeroOnly(index, subindex) ==
    IF index \notin DOMAIN OD THEN [code |-> NoSuchIndex]
    ELSE IF OD[index].kind # "Variable"
         THEN IF subindex \notin DOMAIN OD[index].subs
              THEN [code |-> NoSuchSubindex]
              ELSE [code |-> 0, obj |-> OD[index].subs[subindex]]
         ELSE IF subindex # 0 THEN [code |-> NoSuchSubindex]
              ELSE [code |-> 0, obj |-> OD[index]]

FindObject_FirstMember(index, subindex) ==
    IF index \notin DOMAIN OD THEN [code |-> NoSuchIndex]
    ELSE IF OD[index].kind # "Variable"
         THEN [code |-> 0, obj |-> OD[index].subs[0]]
         ELSE [code |-> 0, obj |-> OD[index]]

\* lines 119-130
FindObject(index, subindex) ==
    IF index \notin DOMAIN OD THEN [code |-> NoSuchIndex]
    ELSE IF OD[index].kind # "Variable"
         THEN IF subindex \notin DOMAIN OD[index].subs
              THEN [code |-> NoSuchSubindex]
              ELSE [code |-> 0, obj |-> OD[index].subs[subindex]]
         ELSE [code |-> 0, obj |-> OD[index]]

(***************************************************************************)
(* The callback chains.                                                    *)
(***************************************************************************)
\* the read callbacks a user registers
ReadCallbackKinds == {"read_setpoint", "read_any"}
\* the write callbacks a user registers
WriteCallbackKinds == {"write_log", "write_raise"}

\* callback(index=index, subindex=subindex, od=obj): <<>> for None, else <<v>>
ReadCallback(cb, index, subindex, obj) ==
    CASE cb = "read_setpoint" -> IF index = IdxSetpoint THEN <<258>> ELSE <<>>
      [] cb = "read_any" ->
            IF index \in {IdxSetpoint, IdxStatus} THEN <<3>> ELSE <<>>

\* the callbacks of the chain that return a value for this address
Answering(index, subindex, obj) ==
    {i \in 1..Len(read_callbacks) :
        ReadCallback(read_callbacks[i], index, subindex, obj) # <<>>}

Min(S) == CHOOSE x \in S : \A y \in S : x <= y
Max(S) == CHOOSE x \in S : \A y \in S : x >= y

TryReadCallbacks_Last(index, subindex, obj) ==
    LET hits == Answering(index, subindex, obj) IN
    IF hits = {} THEN [called |-> read_callbacks, result |-> <<>>]
    ELSE [called |-> read_callbacks,
          result |-> ReadCallback(read_callbacks[Max(hits)], index, subindex, obj)]

\* lines 73-76: the callbacks are called in order up to the first that answers
TryReadCallbacks(index, subindex, obj) ==
    LET hits == Answering(index, subindex, obj) IN
    IF hits = {} THEN [called |-> read_callbacks, result |-> <<>>]
    ELSE [called |-> SubSeq(read_callbacks, 1, Min(hits)),
          result |-> ReadCallback(read_callbacks[Min(hits)], index, subindex, obj)]

(***************************************************************************)
(* get_data.                                                               *)
(***************************************************************************)
Failure(code, called) == [status |-> "abort", code |-> code, called |-> called]
Returned(ret, called) == [status |-> "ok", code |-> 0, ret |-> ret, called |-> called]

ReadDenied_Always(check_readable, obj) == ~obj.readable

\* line 69
ReadDenied(check_readable, obj) == check_readable /\ ~obj.readable

Fallback_DefaultFirst(obj, called) ==
    IF obj.default # <<>> THEN Returned(encode_raw(obj, obj.default[1]), called)
    ELSE IF obj.value # <<>> THEN Returned(encode_raw(obj, obj.value[1]), called)
    ELSE Failure(ResourceUnavailable, called)

Fallback_Zero(obj, called) ==
    IF obj.value # <<>> THEN Returned(encode_raw(obj, obj.value[1]), called)
    ELSE IF obj.default # <<>> THEN Returned(encode_raw(obj, obj.default[1]), called)
    ELSE Returned(encode_raw(obj, 0), called)

\* lines 82-91: the value of the EDS, then the default, then the abort
Fallback(obj, called) ==
    IF obj.value # <<>> THEN Returned(encode_raw(obj, obj.value[1]), called)
    ELSE IF obj.default # <<>> THEN Returned(encode_raw(obj, obj.default[1]), called)
    ELSE Failure(ResourceUnavailable, called)

\* lines 64-91, on the store given
get_data(store, index, subindex, check_readable) ==
    LET found == FindObject(index, subindex) IN
    IF found.code # 0 THEN Failure(found.code, <<>>)
    ELSE IF ReadDenied(check_readable, found.obj) THEN Failure(WriteOnly, <<>>)
    ELSE LET tried == TryReadCallbacks(index, subindex, found.obj) IN
         IF tried.result # <<>>
         THEN Returned(encode_raw(found.obj, tried.result[1]), tried.called)
         ELSE IF <<index, subindex>> \in DOMAIN store
              THEN Returned(store[<<index, subindex>>], tried.called)
              ELSE Fallback(found.obj, tried.called)

(***************************************************************************)
(* set_data.                                                               *)
(***************************************************************************)
\* the root index of each map and the entries mapped into it, with their
\* offset and length in the buffer
PdoRoot == (1 :> IdxTpdoMapping) @@ (2 :> IdxAbsent)
PdoSlots ==
    (1 :> {[index |-> IdxSetpoint, subindex |-> 0, offset |-> 0, length |-> 2]})
    @@ (2 :> {})

\* the buffers of the maps after construction
InitPdoData == (1 :> <<0, 0>>) @@ (2 :> <<>>)

\* NmtSlave.on_write: a write to 0x1017 sets the heartbeat time
NmtOnWrite(hb, index, data) ==
    IF index = IdxHeartbeat THEN UnpackU16(data) ELSE hb

\* a slot of a buffer overwritten
SlotWrite(buf, slot, data) ==
    SubSeq(buf, 1, slot.offset) \o data
        \o SubSeq(buf, slot.offset + slot.length + 1, Len(buf))

\* self.pdo[index]: <<m>> for the map m rooted at the index, <<>> for KeyError
PdoLookup(index) ==
    IF \E m \in Maps : PdoRoot[m] = index
    THEN <<CHOOSE m \in Maps : PdoRoot[m] = index>>
    ELSE <<>>

\* self.pdo[index][subindex]: the slots of the entry mapped in what the lookup
\* of the index found, {} for KeyError
PdoLookupSub(index, subindex) ==
    LET found == PdoLookup(index) IN
    IF found = <<>> THEN {}
    ELSE {sl \in PdoSlots[found[1]] : sl.index = index /\ sl.subindex = subindex}

\* lines 132-140: the buffer of what self.pdo[index] finds; on KeyError the slot
\* of what self.pdo[index][subindex] finds; on KeyError again nothing
PdoUpdate(pdo, index, subindex, data) ==
    IF PdoLookup(index) # <<>>
    THEN [pdo EXCEPT ![PdoLookup(index)[1]] = data]
    ELSE IF PdoLookupSub(index, subindex) # {}
    THEN LET m == PdoLookup(index)[1]
             sl == CHOOSE x \in PdoLookupSub(index, subindex) : TRUE
         IN [pdo EXCEPT ![m] = SlotWrite(pdo[m], sl, data)]
    ELSE pdo

RECURSIVE RunWriteCallbacks_Continue(_, _, _, _, _)
RunWriteCallbacks_Continue(i, acc, index, subindex, data) ==
    IF i > Len(write_callbacks) THEN acc
    ELSE LET cb == write_callbacks[i]
             called == Append(acc.called, cb)
         IN CASE cb = "nmt.on_write" ->
                    RunWriteCallbacks_Continue(i + 1,
                        [acc EXCEPT !.called = called,
                                    !.hb = NmtOnWrite(acc.hb, index, data)],
                        index, subindex, data)
              [] cb = "_pdo_update_callback" ->
                    RunWriteCallbacks_Continue(i + 1,
                        [acc EXCEPT !.called = called,
                                    !.pdo = PdoUpdate(acc.pdo, index, subindex, data)],
                        index, subindex, data)
              [] cb = "write_log" ->
                    RunWriteCallbacks_Continue(i + 1, [acc EXCEPT !.called = called],
                        index, subindex, data)
              [] cb = "write_raise" ->
                    RunWriteCallbacks_Continue(i + 1,
                        [acc EXCEPT !.called = called, !.raised = TRUE],
                        index, subindex, data)

\* lines 112-113: the callbacks from the i-th on, on the node state acc
RECURSIVE RunWriteCallbacks(_, _, _, _, _)
RunWriteCallbacks(i, acc, index, subindex, data) ==
    IF i > Len(write_callbacks) THEN acc
    ELSE LET cb == write_callbacks[i]
             called == Append(acc.called, cb)
         IN CASE cb = "nmt.on_write" ->
                    RunWriteCallbacks(i + 1,
                        [acc EXCEPT !.called = called,
                                    !.hb = NmtOnWrite(acc.hb, index, data)],
                        index, subindex, data)
              [] cb = "_pdo_update_callback" ->
                    RunWriteCallbacks(i + 1,
                        [acc EXCEPT !.called = called,
                                    !.pdo = PdoUpdate(acc.pdo, index, subindex, data)],
                        index, subindex, data)
              [] cb = "write_log" ->
                    RunWriteCallbacks(i + 1, [acc EXCEPT !.called = called],
                        index, subindex, data)
              [] cb = "write_raise" ->
                    [acc EXCEPT !.called = called, !.raised = TRUE]

WriteDenied_Always(check_writable, obj) == ~obj.writable

\* line 102
WriteDenied(check_writable, obj) == check_writable /\ ~obj.writable

LengthBad_OnlyLonger(obj, data) ==
    obj.data_type \in NUMBER_TYPES /\ 8 * Len(data) > obj.bits

\* lines 106-108
LengthBad(obj, data) ==
    obj.data_type \in NUMBER_TYPES /\ ~(8 * Len(data) = obj.bits)

StoreWrite_KeepOld(store, index, subindex, data) ==
    [k \in DOMAIN store \cup {<<index, subindex>>} |->
        IF k \in DOMAIN store THEN store[k] ELSE data]

StoreWrite_FirstSub(store, index, subindex, data) ==
    [k \in DOMAIN store \cup {<<index, 0>>} |->
        IF k = <<index, 0>> THEN data ELSE store[k]]

\* lines 116-117
StoreWrite(store, index, subindex, data) ==
    [k \in DOMAIN store \cup {<<index, subindex>>} |->
        IF k = <<index, subindex>> THEN data ELSE store[k]]

StoreAfterCallbacks_Always(raised, index, subindex, data) ==
    StoreWrite(data_store, index, subindex, data)

\* lines 112-117: an exception of a callback leaves the method before the store
\* is written
StoreAfterCallbacks(raised, index, subindex, data) ==
    IF raised THEN data_store ELSE StoreWrite(data_store, index, subindex, data)

\* what a set_data call leaves unchanged
Untouched(status, code, called) ==
    [status |-> status, code |-> code, called |-> called,
     store |-> data_store, pdo |-> pdo_data, hb |-> heartbeat]

\* lines 93-117: the outcome of the call and the node state after it
set_data(index, subindex, data, check_writable) ==
    LET found == FindObject(index, subindex) IN
    IF found.code # 0 THEN Untouched("abort", found.code, <<>>)
    ELSE IF WriteDenied(check_writable, found.obj) THEN Untouched("abort", ReadOnly, <<>>)
    ELSE IF LengthBad(found.obj, data) THEN Untouched("abort", LengthMismatch, <<>>)
    ELSE LET ran == RunWriteCallbacks(1,
                        [called |-> <<>>, pdo |-> pdo_data, hb |-> heartbeat,
                         raised |-> FALSE],
                        index, subindex, data)
         IN [status |-> IF ran.raised THEN "raised" ELSE "ok",
             code |-> 0,
             called |-> ran.called,
             store |-> StoreAfterCallbacks(ran.raised, index, subindex, data),
             pdo |-> ran.pdo,
             hb |-> ran.hb]

(***************************************************************************)
(* The calls on the access engine.                                         *)
(***************************************************************************)
\* a registered callback list grows to MaxCallbacks user callbacks in all
UserCallbacks == Len(read_callbacks) + Len(write_callbacks) - 2

AddReadCallback(cb) ==
    /\ UserCallbacks < MaxCallbacks
    /\ read_callbacks' = Append(read_callbacks, cb)
    /\ last' = [op |-> "add_read_callback"]
    /\ UNCHANGED <<pdo_data, data_store, write_callbacks, heartbeat>>
    /\ UNCHANGED syncVars
    /\ UNCHANGED netVars

AddWriteCallback(cb) ==
    /\ UserCallbacks < MaxCallbacks
    /\ write_callbacks' = Append(write_callbacks, cb)
    /\ last' = [op |-> "add_write_callback"]
    /\ UNCHANGED <<pdo_data, data_store, read_callbacks, heartbeat>>
    /\ UNCHANGED syncVars
    /\ UNCHANGED netVars

GetData(index, subindex, check_readable) ==
    /\ LET r == get_data(data_store, index, subindex, check_readable) IN
       last' = [op |-> "get_data", index |-> index, subindex |-> subindex,
                check |-> check_readable, status |-> r.status, code |-> r.code,
                called |-> r.called, ret |-> IF r.status = "ok" THEN r.ret ELSE <<>>]
    /\ UNCHANGED accessVars
    /\ UNCHANGED syncVars
    /\ UNCHANGED netVars

SetData(index, subindex, data, check_writable) ==
    /\ LET r == set_data(index, subindex, data, check_writable) IN
       /\ data_store' = r.store
       /\ pdo_data' = r.pdo
       /\ heartbeat' = r.hb
       /\ last' = [op |-> "set_data", index |-> index, subindex |-> subindex,
                   data |-> data, check |-> check_writable, status |-> r.status,
                   code |-> r.code, called |-> r.called]
    /\ UNCHANGED <<read_callbacks, write_callbacks>>
    /\ UNCHANGED syncVars
    /\ UNCHANGED netVars

(***************************************************************************)
(* The network binding.                                                    *)
(***************************************************************************)
\* self.sdo.rx_cobid of node 2, 0x600 + self.id
SdoRxCobId == 1538
\* the identifier of NMT commands
NmtCobId == 0
\* SyncProducer.cob_id
SyncCobId == 128

CobIds == {SdoRxCobId, NmtCobId, SyncCobId}

\* lines 44-46: what associate_network subscribes
AttachSubscriptions ==
    {<<SdoRxCobId, "sdo.on_request">>, <<NmtCobId, "nmt.on_command">>,
     <<SyncCobId, "_on_sync">>}

DetachUnsubscriptions_All == AttachSubscriptions

\* lines 49-50: what remove_network unsubscribes
DetachUnsubscriptions ==
    {<<SdoRxCobId, "sdo.on_request">>, <<NmtCobId, "nmt.on_command">>}

\* network.subscribe(can_id, callback)
Subscribe(subs, pairs) == subs \cup pairs

\* network.unsubscribe(can_id, callback)
Unsubscribe(subs, pairs) == subs \ pairs

AssociateNetwork ==
    /\ network' = "net"
    /\ subscribers' = Subscribe(subscribers, AttachSubscriptions)
    /\ unsub_count' = [id \in CobIds |-> 0]
    /\ detach_calls' = 0
    /\ last' = [op |-> "associate_network", error |-> "none"]
    /\ UNCHANGED syncVars
    /\ UNCHANGED accessVars

\* line 49 dereferences self.network, which is None when no network is associated
RemoveNetwork ==
    /\ detach_calls < MaxDetach
    /\ detach_calls' = IF detach_calls < 0 THEN detach_calls ELSE detach_calls + 1
    /\ IF network = "None"
       THEN /\ last' = [op |-> "remove_network", error |-> "AttributeError"]
            /\ UNCHANGED <<network, subscribers, unsub_count>>
       ELSE /\ subscribers' = Unsubscribe(subscribers, DetachUnsubscriptions)
            /\ unsub_count' =
                  [id \in CobIds |->
                      unsub_count[id]
                        + Cardinality({p \in DetachUnsubscriptions : p[1] = id})]
            /\ network' = "None"
            /\ last' = [op |-> "remove_network", error |-> "none"]
    /\ UNCHANGED syncVars
    /\ UNCHANGED accessVars

\* the network delivers a SYNC message to the callbacks subscribed to it
DeliverSync ==
    /\ <<SyncCobId, "_on_sync">> \in subscribers
    /\ OnSync

(***************************************************************************)
(* The state after LocalNode.__init__.                                     *)
(***************************************************************************)
InitWith(configs) ==
    /\ nmt_state = "INITIALISING"
    /\ enabled \in [Maps -> BOOLEAN]
    /\ trans_type \in configs
    /\ sync_count = [m \in Maps |-> 0]
    /\ run = [m \in Maps |-> IF IsCyclic(trans_type[m]) THEN 0 ELSE -1]
    /\ pdo_data = InitPdoData
    /\ data_store = [k \in {} |-> <<>>]
    /\ read_callbacks = <<>>
    /\ write_callbacks = <<"nmt.on_write", "_pdo_update_callback">>
    /\ heartbeat = 0
    /\ network = "None"
    /\ subscribers = {}
    /\ unsub_count = [id \in CobIds |-> 0]
    /\ detach_calls = -1
    /\ last = [op |-> "__init__"]

InitSync == InitWith(MapConfigs)

NextSync ==
    \/ OnSync
    \/ \E s \in NmtStates : NmtSetState(s)
    \/ \E m \in Maps, b \in BOOLEAN : SetEnabled(m, b)

SpecSync == InitSync /\ [][NextSync]_vars

\* the access engine alone, on a node whose maps are all of type 1
InitAccess == InitWith({[m \in Maps |-> 1]}) /\ enabled = [m \in Maps |-> TRUE]

\* a node on which the user registers no callback
NextAccess ==
    \/ \E a \in Addresses, c \in BOOLEAN : GetData(a[1], a[2], c)
    \/ \E a \in Addresses, d \in Payloads, c \in BOOLEAN : SetData(a[1], a[2], d, c)

SpecAccess == InitAccess /\ [][NextAccess]_vars

\* a node on which the user registers callbacks
NextCallbacks ==
    \/ \E cb \in ReadCallbackKinds : AddReadCallback(cb)
    \/ \E cb \in WriteCallbackKinds : AddWriteCallback(cb)
    \/ \E a \in CallbackAddresses, c \in BOOLEAN : GetData(a[1], a[2], c)
    \/ \E a \in CallbackAddresses, d \in Payloads, c \in BOOLEAN :
          SetData(a[1], a[2], d, c)

SpecCallbacks == InitAccess /\ [][NextCallbacks]_vars

\* the addresses the write callbacks act on: the heartbeat time, the root of
\* map 1 and the entry mapped in it
InterceptAddresses == {<<IdxHeartbeat, 0>>, <<IdxTpdoMapping, 0>>, <<IdxSetpoint, 0>>}

\* a node on which the user registers write callbacks and writes what the
\* callbacks of the node act on
NextIntercept ==
    \/ \E cb \in WriteCallbackKinds : AddWriteCallback(cb)
    \/ \E a \in InterceptAddresses, c \in BOOLEAN : GetData(a[1], a[2], c)
    \/ \E a \in InterceptAddresses, d \in Payloads, c \in BOOLEAN :
          SetData(a[1], a[2], d, c)

SpecIntercept == InitAccess /\ [][NextIntercept]_vars

InitNet == InitWith(SmallMapConfigs)

NextNet ==
    \/ AssociateNetwork
    \/ RemoveNetwork
    \/ DeliverSync
    \/ \E s \in NmtStates : NmtSetState(s)
    \/ \E m \in Maps, b \in BOOLEAN : SetEnabled(m, b)

SpecNet == InitNet /\ [][NextNet]_vars

(***************************************************************************)
(* Properties of the SYNC handler.                                         *)
(***************************************************************************)
SyncStep == last'.op = "_on_sync"

\* C1: a cyclic map (transmission type T in 1..240) whose counter started at 0
\* and that every sync event of the run has reached (OPERATIONAL and enabled)
\* is transmitted by the k-th sync event of the run exactly when T divides k.
C1_TransmitEveryT ==
    [][SyncStep =>
        \A m \in Maps :
            (IsCyclic(trans_type[m]) /\ run[m] >= 0 /\ GatedIn(m)) =>
                ((m \in last'.tx) <=> ((run[m] + 1) % trans_type[m] = 0))]_vars

\* a map of type 240 has just been transmitted, at the end of a run
C1_Witness ==
    /\ last.op = "_on_sync"
    /\ \E m \in Maps : trans_type[m] = 240 /\ m \in last.tx /\ run[m] = 0

\* C2: a sync event outside OPERATIONAL transmits nothing and changes no
\* counter; in OPERATIONAL a disabled map is not transmitted and keeps its counter.
C2_GatedSyncIsNoOp ==
    [][SyncStep =>
        /\ nmt_state # "OPERATIONAL" => (last'.tx = {} /\ sync_count' = sync_count)
        /\ \A m \in Maps :
              ~enabled[m] => (m \notin last'.tx /\ sync_count'[m] = sync_count[m])]_vars

\* a sync event has just been handled outside OPERATIONAL while an enabled map
\* was part way through its period, next to a disabled map
C2_Witness ==
    /\ last.op = "_on_sync"
    /\ nmt_state # "OPERATIONAL"
    /\ \E m \in Maps : enabled[m] /\ sync_count[m] > 0
    /\ \E m \in Maps : ~enabled[m]

\* C3: a map whose transmission type is in 241..255 is never transmitted by
\* the sync handler, whatever its counter has reached.
C3_ReservedNeverTransmits ==
    last.op = "_on_sync" => \A m \in last.tx : ~(trans_type[m] \in 241..255)

\* sync events have been handled for an enabled map of type 255 whose counter
\* has reached its transmission type
C3_Witness ==
    /\ last.op = "_on_sync"
    /\ nmt_state = "OPERATIONAL"
    /\ \E m \in Maps : trans_type[m] = 255 /\ enabled[m] /\ sync_count[m] >= 255

(***************************************************************************)
(* Properties of get_data and set_data.                                    *)
(***************************************************************************)
\* the dictionary entry the last call was made on, when it resolves
LastResolves == FindObject(last.index, last.subindex).code = 0
LastObj == FindObject(last.index, last.subindex).obj
LastKey == <<last.index, last.subindex>>

\* the positions of the read callbacks that return a value to the last call
LastAnswers ==
    {i \in 1..Len(read_callbacks) :
        ReadCallback(read_callbacks[i], last.index, last.subindex, LastObj) # <<>>}

\* C4: get_data returns the encoded value of the first read callback that
\* answers, calling none after it and whatever the store holds; with no
\* answer the stored bytes as they are; with nothing stored the value of the
\* EDS; with no such value the default.
C4_ReadPrecedence ==
    (last.op = "get_data" /\ LastResolves /\ ~(last.check /\ ~LastObj.readable)) =>
        IF LastAnswers # {}
        THEN LET i == CHOOSE x \in LastAnswers : \A y \in LastAnswers : x <= y IN
             /\ last.status = "ok"
             /\ last.ret = encode_raw(LastObj,
                    ReadCallback(read_callbacks[i], last.index, last.subindex, LastObj)[1])
             /\ last.called = SubSeq(read_callbacks, 1, i)
        ELSE IF LastKey \in DOMAIN data_store
        THEN last.status = "ok" /\ last.ret = data_store[LastKey]
        ELSE IF LastObj.value # <<>>
        THEN last.status = "ok" /\ last.ret = encode_raw(LastObj, LastObj.value[1])
        ELSE LastObj.default # <<>> =>
                (last.status = "ok" /\ last.ret = encode_raw(LastObj, LastObj.default[1]))

\* two callbacks that both answer are registered, the store holds other bytes
\* for the address, and get_data has just returned the first callback's value
C4_Witness ==
    /\ last.op = "get_data" /\ last.status = "ok"
    /\ last.index = IdxSetpoint
    /\ read_callbacks = <<"read_any", "read_setpoint">>
    /\ LastKey \in DOMAIN data_store
    /\ data_store[LastKey] # last.ret
    /\ last.ret = <<3, 0>>

\* the store holds, under each key, the bytes of the last successful set_data
\* to that key, and has no other key
StoreFollowsWrites ==
    \A k \in DOMAIN data_store' :
        IF last'.op = "set_data" /\ last'.status = "ok"
              /\ k = <<last'.index, last'.subindex>>
        THEN data_store'[k] = last'.data
        ELSE k \in DOMAIN data_store /\ data_store'[k] = data_store[k]

\* with no read callback, get_data of a stored key returns the stored bytes
StoreReadBack ==
    read_callbacks = <<>> =>
        \A k \in DOMAIN data_store, c \in BOOLEAN :
            LET obj == FindObject(k[1], k[2]).obj
                r == get_data(data_store, k[1], k[2], c)
            IN (obj.readable /\ obj.writable) =>
                   (r.status = "ok" /\ r.ret = data_store[k])

\* C5: with no read callback registered, get_data on a readable and writable
\* entry returns exactly the bytes of the last successful set_data to the
\* same (index, subindex), whatever was stored before and whatever the
\* entry's value and default are.
C5_RoundTrip ==
    [][/\ StoreFollowsWrites
       /\ <<data_store, read_callbacks>>' # <<data_store, read_callbacks>> =>
             StoreReadBack']_vars

\* a set_data to subindex 1 of a simple entry has just succeeded over bytes
\* stored before, next to other bytes under subindex 0
C5_Witness ==
    /\ last.op = "set_data" /\ last.status = "ok"
    /\ last.index = IdxSetpoint /\ last.subindex = 1
    /\ <<IdxSetpoint, 0>> \in DOMAIN data_store
    /\ data_store[<<IdxSetpoint, 0>>] # last.data
    /\ get_data(data_store, IdxSetpoint, 1, TRUE).ret = last.data

\* the last call was a set_data on a number with bytes of another length
LastLengthBad ==
    /\ last.op = "set_data" /\ LastResolves
    /\ LastObj.data_type \in NUMBER_TYPES
    /\ 8 * Len(last.data) # LastObj.bits

\* C6 as claimed: set_data on a number with bytes of another length fails with
\* LengthMismatch, whatever check_writable and the entry's writable attribute.
C6_LengthGuardAlways ==
    LastLengthBad => (last.status = "abort" /\ last.code = LengthMismatch)

\* C6 as amended: it fails with LengthMismatch whatever the store holds, unless
\* check_writable is set and the entry is not writable; it then fails with
\* 0x06010002, the permission being checked first.
C6_LengthGuard ==
    LastLengthBad =>
        /\ last.status = "abort"
        /\ last.code = IF last.check /\ ~LastObj.writable
                       THEN ReadOnly ELSE LengthMismatch
        /\ last.called = <<>>

\* a set_data without check_writable on a read-only number that already has
\* stored bytes has just failed on the length
C6_Witness ==
    /\ LastLengthBad
    /\ last.code = LengthMismatch
    /\ ~LastObj.writable
    /\ LastKey \in DOMAIN data_store

\* C7: get_data and set_data on an index that is not in the dictionary fail
\* with NoSuchIndex, and on a subindex that a record or array does not have
\* with NoSuchSubindex, without calling any callback, whatever the store, the
\* callbacks and the check flag.
C7_NoSuchObject ==
    last.op \in {"get_data", "set_data"} =>
        /\ last.index \notin DOMAIN OD =>
              (last.status = "abort" /\ last.code = NoSuchIndex /\ last.called = <<>>)
        /\ (last.index \in DOMAIN OD /\ OD[last.index].kind # "Variable"
                /\ last.subindex \notin DOMAIN OD[last.index].subs) =>
              (last.status = "abort" /\ last.code = NoSuchSubindex
                  /\ last.called = <<>>)

\* a call on a subindex a record does not have has just failed, on a node with
\* a read callback registered and bytes in the store
C7_Witness ==
    /\ last.op \in {"get_data", "set_data"}
    /\ last.index = IdxTpdoMapping /\ last.subindex = 1
    /\ last.code = NoSuchSubindex
    /\ read_callbacks # <<>>
    /\ DOMAIN data_store # {}

\* nothing gives a value to the last get_data
LastNothingToRead ==
    /\ LastAnswers = {}
    /\ LastKey \notin DOMAIN data_store
    /\ LastObj.value = <<>>
    /\ LastObj.default = <<>>

\* C8 as claimed: get_data on an entry of the dictionary fails with
\* ResourceUnavailable exactly when no read callback answers, nothing is
\* stored and the entry has no value and no default.
C8_UnavailableExactly ==
    (last.op = "get_data" /\ LastResolves) =>
        ((last.status = "abort" /\ last.code = ResourceUnavailable)
            <=> LastNothingToRead)

\* a get_data that passes the readable check fails with ResourceUnavailable
\* exactly when nothing gives it a value
UnavailableWhenReadable ==
    (last.op = "get_data" /\ LastResolves /\ ~(last.check /\ ~LastObj.readable)) =>
        ((last.status = "abort" /\ last.code = ResourceUnavailable)
            <=> LastNothingToRead)

\* a get_data that passes the readable check succeeds on every stored key
StoredIsAvailable ==
    \A k \in DOMAIN data_store, c \in BOOLEAN :
        ~(c /\ ~FindObject(k[1], k[2]).obj.readable) =>
            get_data(data_store, k[1], k[2], c).status = "ok"

\* C8 as amended: a get_data that passes the readable check fails with
\* ResourceUnavailable exactly when no read callback answers, nothing is
\* stored and the entry has no value and no default; keys are never removed
\* from the store, and on a stored key such a get_data succeeds.
C8_Unavailable ==
    [][/\ DOMAIN data_store \subseteq DOMAIN data_store'
       /\ UnavailableWhenReadable'
       /\ <<data_store, read_callbacks>>' # <<data_store, read_callbacks>> =>
             StoredIsAvailable']_vars

\* callbacks are registered, none answers, and a get_data has just failed with
\* ResourceUnavailable while other keys are stored
C8_Witness ==
    /\ last.op = "get_data" /\ last.code = ResourceUnavailable
    /\ Len(last.called) = 2
    /\ DOMAIN data_store # {}

\* C9: with check_readable, get_data on an entry that is not readable fails
\* with 0x06010001 and calls no read callback; with check_writable, set_data
\* on an entry that is not writable fails with 0x06010002, calls no write
\* callback and leaves the store as it was; without the flag no call fails
\* with either code.
C9_PermissionChecks ==
    [][/\ (last'.op = "get_data" /\ LastResolves' /\ last'.check
              /\ ~LastObj'.readable) =>
             (last'.status = "abort" /\ last'.code = WriteOnly
                 /\ last'.called = <<>>)
       /\ (last'.op = "set_data" /\ LastResolves' /\ last'.check
              /\ ~LastObj'.writable) =>
             (last'.status = "abort" /\ last'.code = ReadOnly
                 /\ last'.called = <<>> /\ data_store' = data_store
                 /\ pdo_data' = pdo_data /\ heartbeat' = heartbeat)
       /\ (last'.op \in {"get_data", "set_data"} /\ ~last'.check) =>
             last'.code \notin {WriteOnly, ReadOnly}]_vars

\* a checked set_data on a read-only entry has just been refused on a node
\* with a user write callback, the entry having bytes stored by an unchecked call
C9_Witness ==
    /\ last.op = "set_data" /\ last.code = ReadOnly
    /\ Len(write_callbacks) > 2
    /\ LastKey \in DOMAIN data_store


(***************************************************************************)
(* Properties of the network binding.                                      *)
(***************************************************************************)
\* C10: after associate_network, the second of two remove_network calls in a
\* row raises no error, and no identifier is unsubscribed a second time.
C10_IdempotentDetach ==
    (last.op = "remove_network" /\ detach_calls = 2) =>
        (last.error = "none" /\ \A id \in CobIds : unsub_count[id] <= 1)

(***************************************************************************)
(* Properties of set_data and its write callbacks.                         *)
(***************************************************************************)
\* the last call is a set_data that passed resolution, permission and length
LastPassedChecks ==
    /\ last.op = "set_data" /\ LastResolves
    /\ ~(last.check /\ ~LastObj.writable)
    /\ ~LastLengthBad

\* the position of the first registered write callback that raises, else the
\* number of write callbacks
FirstRaise ==
    LET raising == {i \in 1..Len(write_callbacks) : write_callbacks[i] = "write_raise"}
    IN IF raising = {} THEN Len(write_callbacks)
       ELSE CHOOSE i \in raising : \A j \in raising : i <= j

NoneRaises == \A i \in 1..Len(write_callbacks) : write_callbacks[i] # "write_raise"

\* C11 as claimed: every set_data that passes resolution, permission and
\* length check ends with the store holding the written bytes under its key,
\* whatever the write callbacks did during the call.
C11_StoreAlwaysWritten ==
    LastPassedChecks =>
        (LastKey \in DOMAIN data_store /\ data_store[LastKey] = last.data)

\* C11: every set_data that passes resolution, permission and length check and
\* in which no write callback raises ends with the store holding the written
\* bytes under its key, whatever the write callbacks did to the heartbeat time
\* and the map buffers; when a callback raises, the store is not written.
C11_StoreWritten ==
    LastPassedChecks =>
        IF NoneRaises
        THEN /\ last.status = "ok"
             /\ LastKey \in DOMAIN data_store /\ data_store[LastKey] = last.data
        ELSE last.status = "raised"

\* a write of the heartbeat time: nmt.on_write took the value, a user callback
\* ran, and the store holds the bytes as well
C11_Witness ==
    /\ LastPassedChecks /\ last.index = IdxHeartbeat
    /\ heartbeat = UnpackU16(last.data) /\ heartbeat # 0
    /\ Len(last.called) > 2
    /\ data_store[LastKey] = last.data

\* C12 as claimed: a set_data that passes the checks calls every registered
\* write callback once, in registration order, whatever the earlier ones did.
C12_AllCallbacksAlways ==
    LastPassedChecks => last.called = write_callbacks

\* C12: a set_data that passes the checks calls the registered write callbacks
\* once each in registration order (nmt.on_write, _pdo_update_callback, then
\* the user's in the order added) up to and including the first one that
\* raises; the ones after it are not called; when none raises all are called.
C12_CallbacksInOrder ==
    [][/\ LastPassedChecks' =>
             /\ last'.called = SubSeq(write_callbacks', 1, FirstRaise')
             /\ SubSeq(write_callbacks', 1, 2)
                    = <<"nmt.on_write", "_pdo_update_callback">>
       /\ write_callbacks' # write_callbacks =>
             \E cb \in WriteCallbackKinds :
                 write_callbacks' = Append(write_callbacks, cb)]_vars

\* a raising callback registered before a logging one: the logging one is not
\* called
C12_Witness ==
    /\ LastPassedChecks
    /\ write_callbacks = <<"nmt.on_write", "_pdo_update_callback",
                           "write_raise", "write_log">>
    /\ last.called = <<"nmt.on_write", "_pdo_update_callback", "write_raise">>

\* C13: every value the store holds under a key of a numeric entry has as many
\* bytes as the entry has bits / 8.
C13_StoredLength ==
    \A k \in DOMAIN data_store :
        LET found == FindObject(k[1], k[2]) IN
        /\ found.code = 0
        /\ found.obj.data_type \in NUMBER_TYPES => 8 * Len(data_store[k]) = found.obj.bits

\* numbers of 8 and of 16 bits are stored, and a write of another length was
\* refused
C13_Witness ==
    /\ <<IdxSetpoint, 0>> \in DOMAIN data_store
    /\ <<IdxStatus, 0>> \in DOMAIN data_store
    /\ last.op = "set_data" /\ last.code = LengthMismatch
    /\ LastKey \in DOMAIN data_store

\* C18: a set_data that fails (no such index or subindex, access denied,
\* length mismatch, or a write callback that raises) leaves the store as it
\* was; the store changes only by a set_data that succeeds, only under the
\* key of that call, and never loses a key.
C18_FailedWriteKeepsStore ==
    [][/\ (last'.op = "set_data" /\ last'.status # "ok") => data_store' = data_store
       /\ data_store' # data_store =>
             /\ last'.op = "set_data" /\ last'.status = "ok"
             /\ DOMAIN data_store' = DOMAIN data_store \cup {LastKey'}
             /\ \A k \in DOMAIN data_store :
                    k # LastKey' => data_store'[k] = data_store[k]]_vars

\* a set_data on a stored key is let down by a raising callback and the key
\* keeps its other bytes
C18_Witness ==
    /\ last.op = "set_data" /\ last.status = "raised"
    /\ LastKey \in DOMAIN data_store /\ data_store[LastKey] # last.data

\* the buffers after a write as the remapping is described: the buffer of the
\* map rooted at the index, else the slot of the mapped entry, else no change
PdoUpdateIntended(pdo, index, subindex, data) ==
    IF PdoLookup(index) # <<>>
    THEN [pdo EXCEPT ![PdoLookup(index)[1]] = data]
    ELSE [m \in Maps |->
            IF \E sl \in PdoSlots[m] : sl.index = index /\ sl.subindex = subindex
            THEN LET sl == CHOOSE x \in PdoSlots[m] :
                              x.index = index /\ x.subindex = subindex
                 IN SlotWrite(pdo[m], sl, data)
            ELSE pdo[m]]

C16_TypeZeroEverySync ==
    [][SyncStep =>
          \A m \in Maps :
              (trans_type[m] = 0 /\ GatedIn(m)) =>
                  (m \in last'.tx /\ sync_count'[m] = 0)]_vars

\* a sync event has transmitted a map of type 0 and a map of type 2 has counted
C16_Witness ==
    /\ last.op = "_on_sync"
    /\ \E m \in Maps : trans_type[m] = 0 /\ m \in last.tx /\ sync_count[m] = 0
    /\ \E m \in Maps : trans_type[m] = 2 /\ sync_count[m] = 1

\* C19: the counter of a map of constant transmission type T in 1..240 is in
\* 0..T-1 after every sync event and in every state between, whatever the
\* enabling and the device state do; the counter of an enabled map of type
\* 241..255 grows by 1 with every sync event in OPERATIONAL and is never reset.
C19_CounterBound ==
    [][/\ \A m \in Maps :
            IsCyclic(trans_type'[m]) =>
                (0 <= sync_count'[m] /\ sync_count'[m] <= trans_type'[m] - 1)
       /\ SyncStep =>
            \A m \in Maps :
                (trans_type[m] \in 241..255 /\ GatedIn(m)) =>
                    (sync_count'[m] = sync_count[m] + 1 /\ m \notin last'.tx)]_vars

\* the counter of a map of type 240 stands at its bound after a sync event
C19_Witness ==
    /\ last.op = "_on_sync"
    /\ \E m \in Maps : trans_type[m] = 240 /\ sync_count[m] = 239

C15_DetachBarrier ==
    network = "None" => (subscribers = {} /\ last.op # "_on_sync")

(***************************************************************************)
(* Properties of the subindex of a simple entry.                           *)
(***************************************************************************)
IsSimple(index) == index \in DOMAIN OD /\ OD[index].kind = "Variable"

EmptyStore == [k \in {} |-> <<>>]

\* C20: on a simple entry get_data and set_data resolve the same entry for
\* every subindex and never fail with NoSuchSubindex; the store is keyed by
\* the subindex of the call, so the bytes written with subindex s are what
\* get_data returns for s, and a get_data for a subindex nothing was written
\* with gives what it gives on an empty store.
C20_SimpleSubindex ==
    /\ (last.op \in {"get_data", "set_data"} /\ IsSimple(last.index)) =>
           /\ LastResolves /\ LastObj = OD[last.index]
           /\ last.code # NoSuchSubindex
    /\ (last.op = "set_data" /\ IsSimple(last.index) /\ last.status = "ok") =>
           data_store[LastKey] = last.data
    /\ \A a \in Addresses :
           IsSimple(a[1]) =>
               LET r == get_data(data_store, a[1], a[2], FALSE) IN
               IF a \in DOMAIN data_store
               THEN r.status = "ok" /\ r.ret = data_store[a]
               ELSE r = get_data(EmptyStore, a[1], a[2], FALSE)

\* bytes are stored for subindex 0 of a simple entry and a get_data for its
\* subindex 1 finds nothing
C20_Witness ==
    /\ last.op = "get_data" /\ last.index = IdxSetpoint /\ last.subindex = 1
    /\ last.code = ResourceUnavailable
    /\ <<IdxSetpoint, 0>> \in DOMAIN data_store
    /\ <<IdxSetpoint, 1>> \notin DOMAIN data_store

====
